---- MODULE Spec2Model ----
(***************************************************************************)
(* Model of src/contracts/Faucet_Integrate.js: the client-side binding of  *)
(* the USDCAutoFaucet contract.  Every exported async function is modelled *)
(* as a sequence of steps, one per await; the wallet, the provider and the *)
(* remote contract are the environment, which resolves or rejects each     *)
(* awaited call.                                                           *)
(*                                                                         *)
(* Text is a sequence of one-character strings.  Token quantities (uint256 *)
(* on chain) are integers; JS Numbers given as amounts are held in         *)
(* millionths (the value n stands for the Number n / 10^6).  Durations are *)
(* uint256 values beyond the range of the checker's integers and are held  *)
(* in three base-86400 limbs.                                              *)
(***************************************************************************)
EXTENDS Integers, Sequences, FiniteSets, TLC

VARIABLES
    op,         \* the exported function being executed, or "idle"
    pc,         \* the await the function is suspended on, or "done"
    amount,     \* the argument of requestTokens
    wallet,     \* window.ethereum is present
    isOwner,    \* the connected account is the owner of the faucet
    trace,      \* the provider / contract calls issued so far, with their outcome
    locals,     \* the local variables of the running function
    result,     \* how the function's promise settled
    console,    \* the console.error messages written
    convIn,     \* conversion harness: the amount under conversion
    convPc,     \* conversion harness: position
    scaled,     \* conversion harness: result of parseUnits
    display     \* conversion harness: result of formatUnits

vars == <<op, pc, amount, wallet, isOwner, trace, locals, result, console,
          convIn, convPc, scaled, display>>

opVars == <<op, pc, amount, wallet, isOwner, trace, locals, result, console>>
convVars == <<convIn, convPc, scaled, display>>

-----------------------------------------------------------------------------
(* Program constants *)

\* the second argument of ethers.parseUnits / ethers.formatUnits
DECIMALS == 6

\* seconds per day, hour, minute in getTimeUntilNextAutoMint
DAY == 86400
HOUR == 3600
MINUTE == 60

FAUCET_ADDRESS ==
    <<"0","x","2","F","1","0","2","9","7","5","5","5","8","1","3","b","8","7",
      "0","6","e","9","E","0","e","F","7","2","f","A","f","A","b","7","2","9",
      "5","1","6","B","6","5">>

EXPECTED_USDC ==
    <<"0","x","1","9","0","4","f","0","5","2","2","F","C","7","f","1","0","5",
      "1","7","1","7","5","B","d","0","E","5","4","6","4","3","0","f","1","C",
      "F","0","B","9","F","a">>

-----------------------------------------------------------------------------
(* Bounds of the model *)

MaxWholeLen == 1      \* digits before the point in a generated amount string
MaxFracLen == 7       \* digits after the point in a generated amount string
ReqWholeLen == 1      \* the same, for the amounts handed to requestTokens
ReqFracLen == 1
MaxMant == 2          \* mantissa of the generated on-chain quantities
MaxDays == 1          \* days in the generated durations
MaxDelta == 30        \* distance from 2^53 of the generated large durations

Digits == {"0", "1", "9"}

-----------------------------------------------------------------------------
(* Text *)

DigitChars == <<"0","1","2","3","4","5","6","7","8","9">>

IsDigit(c) == \E i \in 1..10 : DigitChars[i] = c

DigitVal(c) == (CHOOSE i \in 1..10 : DigitChars[i] = c) - 1

AllDigits(s) == \A i \in 1..Len(s) : IsDigit(s[i])

RECURSIVE Pow10(_)
Pow10(k) == IF k = 0 THEN 1 ELSE 10 * Pow10(k - 1)

\* BigInt(str) of a digit string
RECURSIVE DigitsToInt(_)
DigitsToInt(s) ==
    IF s = <<>> THEN 0
    ELSE 10 * DigitsToInt(SubSeq(s, 1, Len(s) - 1)) + DigitVal(s[Len(s)])

\* (n).toString() of a non-negative integer
RECURSIVE IntToDigits(_)
IntToDigits(n) ==
    IF n < 10 THEN <<DigitChars[n + 1]>>
    ELSE IntToDigits(n \div 10) \o <<DigitChars[(n % 10) + 1]>>

RECURSIVE Zeros(_)
Zeros(k) == IF k <= 0 THEN <<>> ELSE <<"0">> \o Zeros(k - 1)

RECURSIVE StripLeadingZeros(_)
StripLeadingZeros(s) ==
    IF Len(s) > 0 /\ s[1] = "0" THEN StripLeadingZeros(Tail(s)) ELSE s

RECURSIVE StripTrailingZeros(_)
StripTrailingZeros(s) ==
    IF Len(s) > 0 /\ s[Len(s)] = "0"
    THEN StripTrailingZeros(SubSeq(s, 1, Len(s) - 1)) ELSE s

\* index of the first "." of s, or 0
PointAt(s) ==
    IF \E i \in 1..Len(s) : s[i] = "."
    THEN CHOOSE i \in 1..Len(s) : s[i] = "." /\ \A j \in 1..(i - 1) : s[j] # "."
    ELSE 0

LowerChar(c) ==
    CASE c = "A" -> "a" [] c = "B" -> "b" [] c = "C" -> "c"
      [] c = "D" -> "d" [] c = "E" -> "e" [] c = "F" -> "f"
      [] c = "X" -> "x" [] OTHER -> c

\* String.prototype.toLowerCase
ToLowerCase(s) == [i \in 1..Len(s) |-> LowerChar(s[i])]

-----------------------------------------------------------------------------
(* JavaScript values handed to requestTokens *)

JsNull == [t |-> "null", n |-> 0, s |-> <<>>]
JsUndefined == [t |-> "undefined", n |-> 0, s |-> <<>>]
JsNaN == [t |-> "nan", n |-> 0, s |-> <<>>]
JsNumber(k) == [t |-> "number", n |-> k, s |-> <<>>]
JsString(str) == [t |-> "string", n |-> 0, s |-> str]

\* ToBoolean, as applied by `!amount`
Truthy(v) ==
    CASE v.t = "null" -> FALSE
      [] v.t = "undefined" -> FALSE
      [] v.t = "nan" -> FALSE
      [] v.t = "number" -> v.n # 0
      [] v.t = "string" -> v.s # <<>>

\* Number.prototype.toString of the Number n / 10^6 (decimal notation, which
\* JS uses for magnitudes in [10^-6, 10^21))
NumberToString(n) ==
    LET m == IF n < 0 THEN -n ELSE n
        whole == IntToDigits(m \div Pow10(DECIMALS))
        fr == m % Pow10(DECIMALS)
        frac == StripTrailingZeros(
                    Zeros(DECIMALS - Len(IntToDigits(fr))) \o IntToDigits(fr))
    IN  (IF n < 0 THEN <<"-">> ELSE <<>>) \o whole
            \o (IF frac = <<>> THEN <<>> ELSE <<".">> \o frac)

\* amount.toString()
AmountToString(v) ==
    CASE v.t = "string" -> v.s
      [] v.t = "number" -> NumberToString(v.n)
      [] v.t = "nan" -> <<"N", "a", "N">>

-----------------------------------------------------------------------------
(* ethers.parseUnits and ethers.formatUnits *)

Ok(v) == [ok |-> TRUE, val |-> v, err |-> "none"]
Err(e) == [ok |-> FALSE, val |-> 0, err |-> e]

\* A bug a fixed-point parser can have: the fraction is not padded to the
\* full number of decimals before it is joined to the whole part.
ParseUnitsNoPad(str, decimals) ==
    LET neg == Len(str) > 0 /\ str[1] = "-"
        body == IF neg THEN Tail(str) ELSE str
        p == PointAt(body)
        whole == IF p = 0 THEN body ELSE SubSeq(body, 1, p - 1)
        frac == IF p = 0 THEN <<>> ELSE SubSeq(body, p + 1, Len(body))
    IN  IF ~(AllDigits(whole) /\ AllDigits(frac) /\ Len(whole) + Len(frac) > 0)
        THEN Err("INVALID_ARGUMENT")
        ELSE IF Len(frac) > decimals
                /\ ~(\A i \in (decimals + 1)..Len(frac) : frac[i] = "0")
        THEN Err("NUMERIC_FAULT")
        ELSE LET kept == IF Len(frac) > decimals THEN decimals ELSE Len(frac)
                 mag == DigitsToInt(whole \o SubSeq(frac, 1, kept))
             IN  Ok(IF neg THEN -mag ELSE mag)

\* ethers.parseUnits(str, decimals): the text must match
\* /^(-?)([0-9]*)\.?([0-9]*)$/ with at least one digit; the fraction is padded
\* with zeros to `decimals` places and anything beyond must be zeros; the
\* result is BigInt(sign + whole + fraction).
ParseUnits(str, decimals) ==
    LET neg == Len(str) > 0 /\ str[1] = "-"
        body == IF neg THEN Tail(str) ELSE str
        p == PointAt(body)
        whole == IF p = 0 THEN body ELSE SubSeq(body, 1, p - 1)
        frac == IF p = 0 THEN <<>> ELSE SubSeq(body, p + 1, Len(body))
        padded == frac \o Zeros(decimals - Len(frac))
    IN  IF ~(AllDigits(whole) /\ AllDigits(frac) /\ Len(whole) + Len(frac) > 0)
        THEN Err("INVALID_ARGUMENT")
        ELSE IF ~(\A i \in (decimals + 1)..Len(padded) : padded[i] = "0")
        THEN Err("NUMERIC_FAULT")
        ELSE LET mag == DigitsToInt(whole \o SubSeq(padded, 1, decimals))
             IN  Ok(IF neg THEN -mag ELSE mag)

\* ethers.formatUnits(value, decimals): the digits of |value| padded to more
\* than `decimals` places, a point inserted `decimals` places from the end,
\* leading zeros of the whole part and trailing zeros of the fraction trimmed
\* down to one digit each.
FormatUnits(value, decimals) ==
    LET neg == value < 0
        digs == IntToDigits(IF neg THEN -value ELSE value)
        str == Zeros(decimals + 1 - Len(digs)) \o digs
        idx == Len(str) - decimals
        w0 == StripLeadingZeros(SubSeq(str, 1, idx))
        f0 == StripTrailingZeros(SubSeq(str, idx + 1, Len(str)))
        whole == IF w0 = <<>> THEN <<"0">> ELSE w0
        frac == IF f0 = <<>> THEN <<"0">> ELSE f0
    IN  IF decimals = 0
        THEN (IF neg THEN <<"-">> ELSE <<>>) \o digs
        ELSE (IF neg THEN <<"-">> ELSE <<>>) \o whole \o <<".">> \o frac

-----------------------------------------------------------------------------
(* uint256 durations in three base-86400 limbs: a * 86400^2 + b * 86400 + c *)

Big(a, b, c) == [a |-> a, b |-> b, c |-> c]

NatToBig(n) == Big(0, n \div DAY, n % DAY)

\* 2^53 = 1206597 * 86400^2 + 10574 * 86400 + 27392
TwoPow53 == Big(1206597, 10574, 27392)

BigLess(x, y) ==
    \/ x.a < y.a
    \/ x.a = y.a /\ x.b < y.b
    \/ x.a = y.a /\ x.b = y.b /\ x.c < y.c

BigIsZero(x) == x.a = 0 /\ x.b = 0 /\ x.c = 0

\* x + d for a small integer d with |d| < 86400
BigAdd(x, d) ==
    LET c1 == x.c + d
        cc == IF c1 < 0 THEN -1 ELSE IF c1 >= DAY THEN 1 ELSE 0
        b1 == x.b + cc
        cb == IF b1 < 0 THEN -1 ELSE IF b1 >= DAY THEN 1 ELSE 0
    IN  Big(x.a + cb, b1 - cb * DAY, c1 - cc * DAY)

\* x div 10 and x mod 10 by long division over the limbs
BigDiv10(x) ==
    LET r1 == x.a % 10
        n2 == r1 * DAY + x.b
        r2 == n2 % 10
        n3 == r2 * DAY + x.c
    IN  [q |-> Big(x.a \div 10, n2 \div 10, n3 \div 10), r |-> n3 % 10]

\* the decimal digits of x: BigInt.prototype.toString, and Number.prototype
\* .toString of an integral Number below 10^21
RECURSIVE BigToString(_)
BigToString(x) ==
    LET d == BigDiv10(x)
    IN  IF BigIsZero(d.q) THEN <<DigitChars[d.r + 1]>>
        ELSE BigToString(d.q) \o <<DigitChars[d.r + 1]>>

\* Number(x) of a BigInt x < 2^54: exact below 2^53; from 2^53 on the Number
\* has a 53-bit significand, so x is rounded to the nearest multiple of 2,
\* a tie going to the multiple of 4 (even significand).  86400 is a multiple
\* of 4, so x mod 4 = x.c mod 4.
ToNumber(x) ==
    IF BigLess(x, TwoPow53) THEN x
    ELSE CASE x.c % 4 = 1 -> BigAdd(x, -1)
           [] x.c % 4 = 3 -> BigAdd(x, 1)
           [] OTHER -> x

\* Math.floor(n / 86400): the limbs shifted down by one
FloorDivDay(n) == Big(0, n.a, n.b)

\* n % 86400
ModDay(n) == n.c

\* n % 3600; 3600 divides 86400
ModHour(n) == n.c % HOUR

-----------------------------------------------------------------------------
(* The environment: what the wallet, the provider and the contracts answer *)

\* amount strings: up to w digits, and optionally a point followed by up to
\* f digits; signed ones with an optional "-" in front
RECURSIVE DigitStrings(_)
DigitStrings(k) ==
    IF k = 0 THEN {<<>>}
    ELSE LET shorter == DigitStrings(k - 1)
         IN  shorter \cup {s \o <<d>> : s \in shorter, d \in Digits}

AmountStrings(w, f) ==
    {wh \o fr :
        wh \in DigitStrings(w),
        fr \in {<<>>} \cup {<<".">> \o x : x \in DigitStrings(f)}}

SignedAmountStrings(w, f) ==
    AmountStrings(w, f) \cup {<<"-">> \o x : x \in AmountStrings(w, f)}

\* on-chain quantities m * 10^e
WeiValues == {m * Pow10(e) : m \in 0..MaxMant, e \in 0..DECIMALS}

\* the arguments tried on requestTokens
RequestAmounts ==
    {JsNull, JsUndefined, JsNaN}
        \cup {JsNumber(k) : k \in {-v : v \in WeiValues} \cup WeiValues}
        \cup {JsString(x) : x \in SignedAmountStrings(ReqWholeLen, ReqFracLen)}

\* the durations the contract may report: small ones, and ones around 2^53
Durations ==
    {NatToBig(d * DAY + h * HOUR + m * MINUTE + x) :
        d \in 0..MaxDays, h \in {0, 1, 23}, m \in {0, 1, 59}, x \in {0, 1, 59}}
        \cup {BigAdd(TwoPow53, k) : k \in (-MaxDelta)..MaxDelta}

OTHER_TOKEN ==
    <<"0","x","2","F","1","0","2","9","7","5","5","5","8","1","3","b","8","7",
      "0","6","e","9","E","0","e","F","7","2","f","A","f","A","b","7","2","9",
      "5","1","6","B","6","6">>

\* the addresses usdcToken() may return: the expected one in its checksum
\* spelling and in lower case, and a different token
TokenAddresses == {EXPECTED_USDC, ToLowerCase(EXPECTED_USDC), OTHER_TOKEN}

Accounts == {"0xA11ce", "0xB0b"}
AccountLists ==
    {<<>>} \cup {<<x>> : x \in Accounts} \cup {<<x, y>> : x \in Accounts, y \in Accounts}

TokenDecimals == {DECIMALS, 18}

RemoteErrors == {"CALL_EXCEPTION", "NETWORK_ERROR"}
WalletErrors == {"ACTION_REJECTED", "NETWORK_ERROR"}

Resolved == [ok |-> TRUE, err |-> "none"]
Rejections(errs) == {[ok |-> FALSE, err |-> e] : e \in errs}
Outcomes(errs) == {Resolved} \cup Rejections(errs)

\* forceAutoMint is owner-only in the contract: for any other caller the
\* transaction is never included successfully
Authorized(f) == f # "forceAutoMint" \/ isOwner

WaitOutcomes(f) ==
    IF Authorized(f) THEN Outcomes(RemoteErrors) ELSE Rejections(RemoteErrors)

-----------------------------------------------------------------------------
(* State of one invocation *)

NoLocals ==
    [amountInWei |-> 0, submittedWei |-> 0, accounts |-> <<>>,
     userAddress |-> "undefined", queriedUser |-> "undefined",
     tokenAddress |-> <<>>, balanceWei |-> 0, formattedBalance |-> <<>>,
     decimals |-> 0, timeInSeconds |-> Big(0, 0, 0), tx |-> 0]

NoResult ==
    [kind |-> "none", err |-> "none", tx |-> 0, text |-> <<>>,
     timeInSeconds |-> <<>>, formatted |-> <<>>, isAvailableNow |-> FALSE]

Threw(e) == [NoResult EXCEPT !.kind = "threw", !.err = e]
ReturnedTx(tx) == [NoResult EXCEPT !.kind = "returned", !.tx = tx]
ReturnedText(t) == [NoResult EXCEPT !.kind = "returned", !.text = t]
ReturnedTime(secs, fmt, avail) ==
    [NoResult EXCEPT !.kind = "returned", !.timeInSeconds = secs,
                     !.formatted = fmt, !.isAvailableNow = avail]

Pending(c) == [call |-> c, st |-> "pending", err |-> "none"]

\* the trace with its pending call settled
Settled(r) ==
    [trace EXCEPT ![Len(trace)].st = IF r.ok THEN "ok" ELSE "failed",
                  ![Len(trace)].err = r.err]

Step(pc2, trace2, locals2, result2, console2) ==
    /\ pc' = pc2
    /\ trace' = trace2
    /\ locals' = locals2
    /\ result' = result2
    /\ console' = console2
    /\ UNCHANGED <<op, amount, wallet, isOwner, convVars>>

Enter(f, a, pc2, trace2, result2, console2) ==
    /\ op = "idle"
    /\ op' = f
    /\ amount' = a
    /\ pc' = pc2
    /\ trace' = trace2
    /\ locals' = NoLocals
    /\ result' = result2
    /\ console' = console2
    /\ UNCHANGED <<wallet, isOwner, convVars>>

At(f, p) == op = f /\ pc = p

-----------------------------------------------------------------------------
(* getFaucetContract *)

\* up to its await: the wallet check, then provider.getSigner() is issued
ConnectStart ==
    IF ~wallet THEN Err("MetaMask not detected") ELSE Ok(0)

\* after its await: r is how getSigner settled
ConnectEnd(r) ==
    IF ~r.ok
    THEN [ok |-> FALSE, err |-> r.err, log |-> <<"Failed to get faucet contract:">>]
    ELSE IF FAUCET_ADDRESS = <<>>
    THEN [ok |-> FALSE, err |-> "Faucet contract address is undefined",
          log |-> <<"Failed to get faucet contract:">>]
    ELSE [ok |-> TRUE, err |-> "none", log |-> <<>>]

\* the ABI coder accepts a uint256 argument only in 0 .. 2^256 - 1 (the
\* upper end is beyond the quantities generated here)
Uint256Encodable(v) == v >= 0

-----------------------------------------------------------------------------
(* requestTokens(amount) *)

\* the catch of requestTokens, triggerAutoMint, forceAutoMint and
\* getRemainingAllowance: log and rethrow
Rethrow(msg, e, trace2, log) ==
    Step("done", trace2, locals, Threw(e), console \o log \o <<msg>>)

\* A validation that tests the amount against null only: 0, NaN and "" pass.
AmountMissingNullOnly(a) == a.t \in {"null", "undefined"}

\* `!amount`
AmountMissing(a) == ~Truthy(a)

RequestTokens_Call(a) ==
    IF AmountMissing(a)
    THEN Enter("requestTokens", a, "done", <<>>, Threw("Amount is required"), <<>>)
    ELSE IF ~ConnectStart.ok
    THEN Enter("requestTokens", a, "done", <<>>, Threw(ConnectStart.err),
               <<"Faucet request failed:">>)
    ELSE Enter("requestTokens", a, "getSigner", <<Pending("getSigner")>>,
               NoResult, <<>>)

RequestTokens_Connected ==
    /\ At("requestTokens", "getSigner")
    /\ \E r \in Outcomes(WalletErrors) :
        LET c == ConnectEnd(r)
            wei == ParseUnits(AmountToString(amount), DECIMALS)
        IN  IF ~c.ok
            THEN Rethrow("Faucet request failed:", c.err, Settled(r), c.log)
            ELSE IF ~wei.ok
            THEN Rethrow("Faucet request failed:", wei.err, Settled(r), <<>>)
            ELSE IF ~Uint256Encodable(wei.val)
            THEN Step("done", Settled(r),
                      [locals EXCEPT !.amountInWei = wei.val],
                      Threw("INVALID_ARGUMENT"),
                      console \o <<"Faucet request failed:">>)
            ELSE Step("requestTokens",
                      Append(Settled(r), Pending("requestTokens")),
                      [locals EXCEPT !.amountInWei = wei.val,
                                     !.submittedWei = wei.val],
                      result, console)

RequestTokens_Submitted ==
    /\ At("requestTokens", "requestTokens")
    /\ \E r \in Outcomes(RemoteErrors) :
        IF ~r.ok
        THEN Rethrow("Faucet request failed:", r.err, Settled(r), <<>>)
        ELSE Step("wait", Append(Settled(r), Pending("wait")),
                  [locals EXCEPT !.tx = 1], result, console)

RequestTokens_Waited ==
    /\ At("requestTokens", "wait")
    /\ \E r \in WaitOutcomes("requestTokens") :
        IF ~r.ok
        THEN Rethrow("Faucet request failed:", r.err, Settled(r), <<>>)
        ELSE Step("done", Settled(r), locals, ReturnedTx(locals.tx), console)

-----------------------------------------------------------------------------
(* getRemainingAllowance() *)

GetRemainingAllowance_Call ==
    IF ~ConnectStart.ok
    THEN Enter("getRemainingAllowance", JsUndefined, "done", <<>>,
               Threw(ConnectStart.err), <<"Failed to get remaining allowance:">>)
    ELSE Enter("getRemainingAllowance", JsUndefined, "getSigner",
               <<Pending("getSigner")>>, NoResult, <<>>)

GetRemainingAllowance_Connected ==
    /\ At("getRemainingAllowance", "getSigner")
    /\ \E r \in Outcomes(WalletErrors) :
        LET c == ConnectEnd(r)
        IN  IF ~c.ok
            THEN Rethrow("Failed to get remaining allowance:", c.err,
                         Settled(r), c.log)
            ELSE Step("eth_requestAccounts",
                      Append(Settled(r), Pending("eth_requestAccounts")),
                      locals, result, console)

\* accounts[0]; undefined when the list is empty
FirstAccount(accounts) ==
    IF accounts = <<>> THEN "undefined" ELSE accounts[1]

GetRemainingAllowance_Accounts ==
    /\ At("getRemainingAllowance", "eth_requestAccounts")
    /\ \E r \in Outcomes(WalletErrors), accounts \in AccountLists :
        LET user == FirstAccount(accounts)
            loc == [locals EXCEPT !.accounts = accounts, !.userAddress = user]
        IN  IF ~r.ok
            THEN Rethrow("Failed to get remaining allowance:", r.err,
                         Settled(r), <<>>)
            ELSE IF user = "undefined"
            THEN Step("done", Settled(r), loc, Threw("INVALID_ARGUMENT"),
                      console \o <<"Failed to get remaining allowance:">>)
            ELSE Step("getRemainingAllowance",
                      Append(Settled(r), Pending("getRemainingAllowance")),
                      [loc EXCEPT !.queriedUser = user], result, console)

\* A catch that degrades to "0" instead of rethrowing.
AllowanceFailedSoft(e, trace2) ==
    Step("done", trace2, locals, ReturnedText(<<"0">>),
         console \o <<"Failed to get remaining allowance:">>)

\* the catch of getRemainingAllowance for a failed contract read
AllowanceFailed(e, trace2) ==
    Rethrow("Failed to get remaining allowance:", e, trace2, <<>>)

GetRemainingAllowance_Read ==
    /\ At("getRemainingAllowance", "getRemainingAllowance")
    /\ \E r \in Outcomes(RemoteErrors), remainingWei \in WeiValues :
        IF ~r.ok
        THEN AllowanceFailed(r.err, Settled(r))
        ELSE Step("done", Settled(r),
                  [locals EXCEPT !.balanceWei = remainingWei],
                  ReturnedText(FormatUnits(remainingWei, DECIMALS)), console)

-----------------------------------------------------------------------------
(* getFaucetBalance() *)

CRITICAL == "CRITICAL: USDC addresses don't match! Faucet is using wrong token."

\* A catch that hands back whatever balance was already decoded.
BalanceFailedKeep(e, trace2) ==
    Step("done", trace2, locals,
         ReturnedText(IF locals.formattedBalance = <<>> THEN <<"0">>
                      ELSE locals.formattedBalance),
         console \o <<"Failed to get faucet balance:", "Error details:">>)

\* the catch of getFaucetBalance: two console.error lines, return "0"
BalanceFailed(e, trace2) ==
    Step("done", trace2, locals, ReturnedText(<<"0">>),
         console \o <<"Failed to get faucet balance:", "Error details:">>)

GetFaucetBalance_Call ==
    IF ~ConnectStart.ok
    THEN Enter("getFaucetBalance", JsUndefined, "done", <<>>,
               ReturnedText(<<"0">>),
               <<"Failed to get faucet balance:", "Error details:">>)
    ELSE Enter("getFaucetBalance", JsUndefined, "getSigner",
               <<Pending("getSigner")>>, NoResult, <<>>)

GetFaucetBalance_Connected ==
    /\ At("getFaucetBalance", "getSigner")
    /\ \E r \in Outcomes(WalletErrors) :
        LET c == ConnectEnd(r)
        IN  IF ~c.ok
            THEN Step("done", Settled(r), locals, ReturnedText(<<"0">>),
                      console \o c.log
                          \o <<"Failed to get faucet balance:", "Error details:">>)
            ELSE Step("usdcToken", Append(Settled(r), Pending("usdcToken")),
                      locals, result, console)

\* The comparison without the case folding.
AddressMismatchExact(tokenAddress) == tokenAddress # EXPECTED_USDC

\* tokenAddress.toLowerCase() !== "0x1904...".toLowerCase()
AddressMismatch(tokenAddress) ==
    ToLowerCase(tokenAddress) # ToLowerCase(EXPECTED_USDC)

GetFaucetBalance_Token ==
    /\ At("getFaucetBalance", "usdcToken")
    /\ \E r \in Outcomes(RemoteErrors), tokenAddress \in TokenAddresses :
        IF ~r.ok
        THEN BalanceFailed(r.err, Settled(r))
        ELSE Step("getFaucetBalance",
                  Append(Settled(r), Pending("getFaucetBalance")),
                  [locals EXCEPT !.tokenAddress = tokenAddress],
                  result,
                  IF AddressMismatch(tokenAddress)
                  THEN Append(console, CRITICAL) ELSE console)

GetFaucetBalance_Balance ==
    /\ At("getFaucetBalance", "getFaucetBalance")
    /\ \E r \in Outcomes(RemoteErrors), balanceWei \in WeiValues :
        LET loc == [locals EXCEPT
                       !.balanceWei = balanceWei,
                       !.formattedBalance = FormatUnits(balanceWei, DECIMALS)]
        IN  IF ~r.ok
            THEN BalanceFailed(r.err, Settled(r))
            ELSE IF ~wallet
            THEN Step("done", Settled(r), loc, ReturnedText(<<"0">>),
                      console \o <<"Failed to get faucet balance:", "Error details:">>)
            ELSE Step("decimals", Append(Settled(r), Pending("decimals")),
                      loc, result, console)

GetFaucetBalance_Decimals ==
    /\ At("getFaucetBalance", "decimals")
    /\ \E r \in Outcomes(RemoteErrors), decimals \in TokenDecimals :
        IF ~r.ok
        THEN BalanceFailed(r.err, Settled(r))
        ELSE Step("balanceOf", Append(Settled(r), Pending("balanceOf")),
                  [locals EXCEPT !.decimals = decimals], result, console)

GetFaucetBalance_Direct ==
    /\ At("getFaucetBalance", "balanceOf")
    /\ \E r \in Outcomes(RemoteErrors) :
        IF ~r.ok
        THEN BalanceFailed(r.err, Settled(r))
        ELSE Step("done", Settled(r), locals,
                  ReturnedText(locals.formattedBalance), console)

-----------------------------------------------------------------------------
(* triggerAutoMint() and forceAutoMint() *)

\* A submit step that returns the transaction without awaiting tx.wait().
MintSubmittedNoWait(f, msg, call) ==
    /\ At(f, call)
    /\ \E r \in Outcomes(RemoteErrors) :
        IF ~r.ok
        THEN Rethrow(msg, r.err, Settled(r), <<>>)
        ELSE Step("done", Settled(r), [locals EXCEPT !.tx = 1],
                  ReturnedTx(1), console)

MintCall(f, msg) ==
    IF ~ConnectStart.ok
    THEN Enter(f, JsUndefined, "done", <<>>, Threw(ConnectStart.err), <<msg>>)
    ELSE Enter(f, JsUndefined, "getSigner", <<Pending("getSigner")>>,
               NoResult, <<>>)

MintConnected(f, msg, call) ==
    /\ At(f, "getSigner")
    /\ \E r \in Outcomes(WalletErrors) :
        LET c == ConnectEnd(r)
        IN  IF ~c.ok
            THEN Rethrow(msg, c.err, Settled(r), c.log)
            ELSE Step(call, Append(Settled(r), Pending(call)),
                      locals, result, console)

MintSubmitted(f, msg, call) ==
    /\ At(f, call)
    /\ \E r \in Outcomes(RemoteErrors) :
        IF ~r.ok
        THEN Rethrow(msg, r.err, Settled(r), <<>>)
        ELSE Step("wait", Append(Settled(r), Pending("wait")),
                  [locals EXCEPT !.tx = 1], result, console)

MintWaited(f, msg) ==
    /\ At(f, "wait")
    /\ \E r \in WaitOutcomes(f) :
        IF ~r.ok
        THEN Rethrow(msg, r.err, Settled(r), <<>>)
        ELSE Step("done", Settled(r), locals, ReturnedTx(locals.tx), console)

TriggerAutoMint_Call == MintCall("triggerAutoMint", "Auto-mint trigger failed:")
TriggerAutoMint_Connected ==
    MintConnected("triggerAutoMint", "Auto-mint trigger failed:", "tryAutoMint")
TriggerAutoMint_Submitted ==
    MintSubmitted("triggerAutoMint", "Auto-mint trigger failed:", "tryAutoMint")
TriggerAutoMint_Waited == MintWaited("triggerAutoMint", "Auto-mint trigger failed:")

ForceAutoMint_Call == MintCall("forceAutoMint", "Force auto-mint failed:")
ForceAutoMint_Connected ==
    MintConnected("forceAutoMint", "Force auto-mint failed:", "forceAutoMint")
ForceAutoMint_Submitted ==
    MintSubmitted("forceAutoMint", "Force auto-mint failed:", "forceAutoMint")
ForceAutoMint_Waited == MintWaited("forceAutoMint", "Force auto-mint failed:")

-----------------------------------------------------------------------------
(* getTimeUntilNextAutoMint() *)

TimeSentinel == ReturnedTime(<<"0">>, <<"Error">>, FALSE)

\* The flag computed from the formatted minutes instead of the raw value.
AvailableNowFromNumber(timeInSeconds) ==
    /\ timeInSeconds.a = 0
    /\ timeInSeconds.b = 0
    /\ timeInSeconds.c \div MINUTE = 0

\* timeInSeconds.toString() === "0"
AvailableNow(timeInSeconds) == BigToString(timeInSeconds) = <<"0">>

\* `${days} days, ${hours} hours, ${minutes} minutes`, computed from
\* Number(timeInSeconds)
Formatted(timeInSeconds) ==
    LET timeInSecondsNumber == ToNumber(timeInSeconds)
        days == FloorDivDay(timeInSecondsNumber)
        hours == ModDay(timeInSecondsNumber) \div HOUR
        minutes == ModHour(timeInSecondsNumber) \div MINUTE
    IN  BigToString(days) \o <<" days, ">> \o IntToDigits(hours)
            \o <<" hours, ">> \o IntToDigits(minutes) \o <<" minutes">>

\* A catch that rethrows instead of answering with the sentinel.
TimeFailedRethrow(e, trace2) ==
    Rethrow("Failed to get time until next auto-mint:", e, trace2, <<>>)

\* the catch of getTimeUntilNextAutoMint
TimeFailed(e, trace2) ==
    Step("done", trace2, locals, TimeSentinel,
         console \o <<"Failed to get time until next auto-mint:">>)

GetTime_Call ==
    IF ~ConnectStart.ok
    THEN Enter("getTimeUntilNextAutoMint", JsUndefined, "done", <<>>,
               TimeSentinel, <<"Failed to get time until next auto-mint:">>)
    ELSE Enter("getTimeUntilNextAutoMint", JsUndefined, "getSigner",
               <<Pending("getSigner")>>, NoResult, <<>>)

GetTime_Connected ==
    /\ At("getTimeUntilNextAutoMint", "getSigner")
    /\ \E r \in Outcomes(WalletErrors) :
        LET c == ConnectEnd(r)
        IN  IF ~c.ok
            THEN Step("done", Settled(r), locals, TimeSentinel,
                      console \o c.log
                          \o <<"Failed to get time until next auto-mint:">>)
            ELSE Step("timeUntilNextAutoMint",
                      Append(Settled(r), Pending("timeUntilNextAutoMint")),
                      locals, result, console)

GetTime_Read ==
    /\ At("getTimeUntilNextAutoMint", "timeUntilNextAutoMint")
    /\ \E r \in Outcomes(RemoteErrors), timeInSeconds \in Durations :
        IF ~r.ok
        THEN TimeFailed(r.err, Settled(r))
        ELSE Step("done", Settled(r),
                  [locals EXCEPT !.timeInSeconds = timeInSeconds],
                  ReturnedTime(BigToString(timeInSeconds),
                               Formatted(timeInSeconds),
                               AvailableNow(timeInSeconds)),
                  console)

-----------------------------------------------------------------------------
(* The gateway: one invocation of one exported function *)

Init ==
    /\ op = "idle"
    /\ pc = "idle"
    /\ amount = JsUndefined
    /\ wallet \in BOOLEAN
    /\ isOwner \in BOOLEAN
    /\ trace = <<>>
    /\ locals = NoLocals
    /\ result = NoResult
    /\ console = <<>>
    /\ convIn = JsUndefined
    /\ convPc = "off"
    /\ scaled = Err("none")
    /\ display = <<>>

Next ==
    \/ \E a \in RequestAmounts : RequestTokens_Call(a)
    \/ RequestTokens_Connected
    \/ RequestTokens_Submitted
    \/ RequestTokens_Waited
    \/ GetRemainingAllowance_Call
    \/ GetRemainingAllowance_Connected
    \/ GetRemainingAllowance_Accounts
    \/ GetRemainingAllowance_Read
    \/ GetFaucetBalance_Call
    \/ GetFaucetBalance_Connected
    \/ GetFaucetBalance_Token
    \/ GetFaucetBalance_Balance
    \/ GetFaucetBalance_Decimals
    \/ GetFaucetBalance_Direct
    \/ TriggerAutoMint_Call
    \/ TriggerAutoMint_Connected
    \/ TriggerAutoMint_Submitted
    \/ TriggerAutoMint_Waited
    \/ ForceAutoMint_Call
    \/ ForceAutoMint_Connected
    \/ ForceAutoMint_Submitted
    \/ ForceAutoMint_Waited
    \/ GetTime_Call
    \/ GetTime_Connected
    \/ GetTime_Read

Spec == Init /\ [][Next]_vars

-----------------------------------------------------------------------------
(* Amount conversion on its own: the scaling of requestTokens followed by  *)
(* the unscaling of getRemainingAllowance / getFaucetBalance               *)

ConvAmounts ==
    {JsNumber(k) : k \in {-v : v \in WeiValues} \cup WeiValues}
        \cup {JsString(x) : x \in AmountStrings(MaxWholeLen, MaxFracLen)}
        \cup {JsString(<<"-">> \o x) : x \in AmountStrings(MaxWholeLen, 0)}

ConvInit ==
    /\ op = "idle"
    /\ pc = "idle"
    /\ amount = JsUndefined
    /\ wallet = TRUE
    /\ isOwner = FALSE
    /\ trace = <<>>
    /\ locals = NoLocals
    /\ result = NoResult
    /\ console = <<>>
    /\ convIn \in ConvAmounts
    /\ convPc = "scale"
    /\ scaled = Err("none")
    /\ display = <<>>

\* ethers.parseUnits(amount.toString(), 6)
Scale ==
    /\ convPc = "scale"
    /\ scaled' = ParseUnits(AmountToString(convIn), DECIMALS)
    /\ convPc' = IF scaled'.ok THEN "unscale" ELSE "rejected"
    /\ UNCHANGED <<convIn, display, opVars>>

\* ethers.formatUnits(remainingWei, 6)
Unscale ==
    /\ convPc = "unscale"
    /\ display' = FormatUnits(scaled.val, DECIMALS)
    /\ convPc' = "done"
    /\ UNCHANGED <<convIn, scaled, opVars>>

ConvNext == Scale \/ Unscale

ConvSpec == ConvInit /\ [][ConvNext]_vars

-----------------------------------------------------------------------------
(* Properties *)

Done(f) == op = f /\ pc = "done"

Calls == [i \in 1..Len(trace) |-> trace[i].call]

AllOk == \A i \in 1..Len(trace) : trace[i].st = "ok"

HasFailed == \E i \in 1..Len(trace) : trace[i].st = "failed"

Issued(c) == \E i \in 1..Len(trace) : trace[i].call = c

OkThrough(c) ==
    \E i \in 1..Len(trace) : trace[i].call = c /\ trace[i].st = "ok"

\* a failed call is the last one issued, and ends the invocation
FailureIsLast ==
    \A i \in 1..Len(trace) : trace[i].st = "failed" => i = Len(trace) /\ pc = "done"

InvalidAmount == "Amount is required"

\* C1: requestTokens(0) and requestTokens(null) fail with InvalidAmount, and
\* no provider or contract call has been issued in that invocation.
C1_ZeroAndNullRejectedBeforeAnyCall ==
    (op = "requestTokens" /\ amount \in {JsNumber(0), JsNull})
        => /\ pc = "done"
           /\ result = Threw(InvalidAmount)
           /\ trace = <<>>
           /\ console = <<>>

C1_Witness ==
    /\ Done("requestTokens")
    /\ amount = JsNumber(0)
    /\ wallet
    /\ result.kind = "threw"

\* a decimal numeral: optional "-", digits, at most one point, one digit at least
IsNumeral(str) ==
    LET body == IF Len(str) > 0 /\ str[1] = "-" THEN Tail(str) ELSE str
    IN  /\ \A i \in 1..Len(body) : IsDigit(body[i]) \/ body[i] = "."
        /\ Cardinality({i \in 1..Len(body) : body[i] = "."}) <= 1
        /\ \E i \in 1..Len(body) : IsDigit(body[i])

\* the amount is missing, or is a number or a numeral that is not above zero
NonPositive(a) ==
    \/ a.t \in {"null", "undefined", "nan"}
    \/ a.t = "number" /\ a.n <= 0
    \/ a.t = "string" /\ a.s = <<>>
    \/ /\ a.t = "string"
       /\ IsNumeral(a.s)
       /\ \/ a.s[1] = "-"
          \/ \A i \in 1..Len(a.s) : a.s[i] \in {"0", "."}

\* C2: for every missing or non-positive amount requestTokens fails with
\* InvalidAmount and never submits a requestTokens call to the contract.
C2_NonPositiveNeverSubmitted ==
    (op = "requestTokens" /\ NonPositive(amount))
        => /\ ~Issued("requestTokens")
           /\ pc = "done" => result = Threw(InvalidAmount)

C2_Witness ==
    /\ op = "requestTokens"
    /\ amount = JsString(<<"0">>)
    /\ OkThrough("requestTokens")
    /\ locals.submittedWei = 0

\* C3: getFaucetBalance never throws; when any step fails (no wallet, connect,
\* usdcToken, getFaucetBalance, decimals, balanceOf) it returns "0", also when
\* the faucet balance had already been read.
C3_BalanceFailsSoft ==
    op = "getFaucetBalance"
        => /\ result.kind # "threw"
           /\ FailureIsLast
           /\ (pc = "done" /\ (trace = <<>> \/ HasFailed))
                => result = ReturnedText(<<"0">>)
           /\ pc = "done" => result.kind = "returned"

C3_Witness ==
    /\ Done("getFaucetBalance")
    /\ Len(trace) = 5
    /\ trace[3].st = "ok"
    /\ trace[5].st = "failed"
    /\ locals.balanceWei > 0
    /\ result = ReturnedText(<<"0">>)

\* C4: getRemainingAllowance propagates every failure (connect, account
\* selection, contract read) as that same error and then returns no value;
\* when it returns, every step succeeded and the allowance queried was that of
\* the first account of the account-selection answer.
C4_AllowancePropagates ==
    op = "getRemainingAllowance"
        => /\ FailureIsLast
           /\ \A i \in 1..Len(trace) :
                trace[i].st = "failed" => result = Threw(trace[i].err)
           /\ (pc = "done" /\ trace = <<>>) => result.kind = "threw"
           /\ result.kind = "returned"
                => /\ AllOk
                   /\ Calls = <<"getSigner", "eth_requestAccounts",
                                "getRemainingAllowance">>
                   /\ locals.accounts # <<>>
                   /\ locals.queriedUser = locals.accounts[1]
                   /\ result.text = FormatUnits(locals.balanceWei, DECIMALS)

C4_Witness ==
    /\ Done("getRemainingAllowance")
    /\ Len(trace) = 3
    /\ trace[3].st = "failed"
    /\ Len(locals.accounts) = 2
    /\ locals.accounts[1] # locals.accounts[2]
    /\ result.kind = "threw"

TimeReadOk ==
    /\ Len(trace) = 2
    /\ trace[2].call = "timeUntilNextAutoMint"
    /\ trace[2].st = "ok"

\* C5: in every result of getTimeUntilNextAutoMint, isAvailableNow is true
\* exactly when a raw duration was read from the contract and it is zero.
C5_AvailableIffZero ==
    Done("getTimeUntilNextAutoMint")
        => (result.isAvailableNow
                <=> (TimeReadOk /\ BigIsZero(locals.timeInSeconds)))

C5_Witness ==
    /\ Done("getTimeUntilNextAutoMint")
    /\ TimeReadOk
    /\ BigIsZero(locals.timeInSeconds)
    /\ result.isAvailableNow

\* C6: when connect or the timeUntilNextAutoMint read fails,
\* getTimeUntilNextAutoMint does not throw but returns exactly
\* {timeInSeconds: "0", formatted: "Error", isAvailableNow: false}.
C6_TimeSentinelOnFailure ==
    op = "getTimeUntilNextAutoMint"
        => /\ result.kind # "threw"
           /\ FailureIsLast
           /\ (pc = "done" /\ (trace = <<>> \/ HasFailed))
                => /\ result.kind = "returned"
                   /\ result.timeInSeconds = <<"0">>
                   /\ result.formatted = <<"Error">>
                   /\ result.isAvailableNow = FALSE

C6_Witness ==
    /\ Done("getTimeUntilNextAutoMint")
    /\ Len(trace) = 2
    /\ trace[2].st = "failed"
    /\ result.kind = "returned"

\* the breakdown of the raw duration t itself: d = t div 86400,
\* h = (t mod 86400) div 3600, m = (t mod 3600) div 60
Breakdown(t) ==
    BigToString(Big(0, t.a, t.b)) \o <<" days, ">>
        \o IntToDigits(t.c \div HOUR) \o <<" hours, ">>
        \o IntToDigits((t.c % HOUR) \div MINUTE) \o <<" minutes">>

\* C7: for every raw duration t >= 0 the formatted text is
\* "<d> days, <h> hours, <m> minutes" with d = t div 86400,
\* h = (t mod 86400) div 3600, m = (t mod 3600) div 60; for 90061 it is
\* "1 days, 1 hours, 1 minutes".
C7_ExactBreakdown ==
    (Done("getTimeUntilNextAutoMint") /\ TimeReadOk)
        => /\ result.formatted = Breakdown(locals.timeInSeconds)
           /\ locals.timeInSeconds = NatToBig(90061)
                => result.formatted = <<"1", " days, ", "1", " hours, ",
                                        "1", " minutes">>

C7_Witness ==
    /\ Done("getTimeUntilNextAutoMint")
    /\ TimeReadOk
    /\ locals.timeInSeconds = BigAdd(TwoPow53, 27)
    /\ result.timeInSeconds =
         <<"9","0","0","7","1","9","9","2","5","4","7","4","1","0","1","9">>
    /\ result.formatted # Breakdown(locals.timeInSeconds)

\* C8: in getFaucetBalance a token address that differs from the expected one
\* (case ignored) is reported and the query goes on: the faucet balance is
\* read next and, if all reads succeed, the decoded faucet balance is
\* returned as with a matching address; a matching address is not reported.
C8_MismatchReportedNotAborting ==
    (op = "getFaucetBalance" /\ OkThrough("usdcToken"))
        => /\ locals.tokenAddress \in {EXPECTED_USDC, ToLowerCase(EXPECTED_USDC)}
                => \A i \in 1..Len(console) : console[i] # CRITICAL
           /\ locals.tokenAddress = OTHER_TOKEN
                => \E i \in 1..Len(console) : console[i] = CRITICAL
           /\ Issued("getFaucetBalance")
           /\ (pc = "done" /\ AllOk)
                => /\ Calls = <<"getSigner", "usdcToken", "getFaucetBalance",
                                "decimals", "balanceOf">>
                   /\ result = ReturnedText(FormatUnits(locals.balanceWei, DECIMALS))

C8_Witness ==
    /\ Done("getFaucetBalance")
    /\ AllOk
    /\ locals.tokenAddress = OTHER_TOKEN
    /\ locals.balanceWei = 1500000 - 500000
    /\ result = ReturnedText(<<"1", ".", "0">>)
    /\ console = <<CRITICAL>>

\* the text of the amount under conversion, and its parts
ConvText == AmountToString(convIn)
ConvWhole ==
    IF PointAt(ConvText) = 0 THEN ConvText
    ELSE SubSeq(ConvText, 1, PointAt(ConvText) - 1)
ConvFrac ==
    IF PointAt(ConvText) = 0 THEN <<>>
    ELSE SubSeq(ConvText, PointAt(ConvText) + 1, Len(ConvText))

\* a valid positive amount with at most 6 fractional digits
ValidAmount ==
    /\ convIn.t \in {"number", "string"}
    /\ convIn.t = "number" => convIn.n > 0
    /\ IsNumeral(ConvText)
    /\ ConvText[1] # "-"
    /\ \E i \in 1..Len(ConvText) : IsDigit(ConvText[i]) /\ ConvText[i] # "0"
    /\ Len(ConvFrac) <= DECIMALS

\* a numeral without its insignificant zeros
Canon(str) ==
    LET p == PointAt(str)
        w == IF p = 0 THEN str ELSE SubSeq(str, 1, p - 1)
        f == IF p = 0 THEN <<>> ELSE SubSeq(str, p + 1, Len(str))
    IN  <<StripLeadingZeros(w), StripTrailingZeros(f)>>

StateChanging == {"requestTokens", "triggerAutoMint", "forceAutoMint"}

SubmitCall(f) ==
    CASE f = "requestTokens" -> "requestTokens"
      [] f = "triggerAutoMint" -> "tryAutoMint"
      [] f = "forceAutoMint" -> "forceAutoMint"

IsPrefix(x, y) == Len(x) <= Len(y) /\ x = SubSeq(y, 1, Len(x))

\* C10: requestTokens, triggerAutoMint and forceAutoMint run connect, submit
\* one transaction, await its inclusion, return, in that order: a result is
\* returned only after the wait for the submitted transaction succeeded, and a
\* failure of connect, submission or inclusion (a revert; forceAutoMint by a
\* caller who is not the owner) makes the function throw that error.
C10_SubmitThenAwaitThenReturn ==
    op \in StateChanging
        => /\ IsPrefix(Calls, <<"getSigner", SubmitCall(op), "wait">>)
           /\ FailureIsLast
           /\ \A i \in 1..Len(trace) :
                trace[i].st = "failed" => result = Threw(trace[i].err)
           /\ result.kind = "returned"
                => /\ pc = "done"
                   /\ Len(trace) = 3
                   /\ AllOk
                   /\ result = ReturnedTx(locals.tx)
                   /\ locals.tx # 0
           /\ (pc = "done" /\ AllOk /\ Len(trace) = 3) => result.kind = "returned"
           /\ (pc = "done" /\ trace = <<>>) => result.kind = "threw"
           /\ (op = "forceAutoMint" /\ ~isOwner /\ pc = "done")
                => result.kind = "threw"

C10_Witness ==
    /\ Done("forceAutoMint")
    /\ isOwner
    /\ result.kind = "returned"
    /\ Calls = <<"getSigner", "forceAutoMint", "wait">>

====
